---- MODULE Spec2Model ----
(***************************************************************************)
(* PageRank (src/pagerank/pagerank.py): the transition model, the sampling *)
(* estimator and the iterative estimator.                                  *)
(*                                                                         *)
(* Numbers.  Python floats are modelled in two ways:                       *)
(*  - transition_model and sample_pagerank do a bounded number of          *)
(*    operations on each value, so their values are exact rationals        *)
(*    [n, d] in lowest terms (float rounding is abstracted away);          *)
(*  - iterate_pagerank feeds every value back into the next round, so its  *)
(*    values are fixed-point numbers: integers counting units of 1/Scale,  *)
(*    every division and product rounded to the nearest unit.              *)
(***************************************************************************)
EXTENDS Integers, Sequences, FiniteSets, TLC

VARIABLES
    corpus,        \* the graph: page -> set of pages it links to
    damping,       \* damping_factor, a rational
    pc,            \* position in the function being run
    err,           \* the exception the call raised, or "none"
    page,          \* transition_model: `page`; sample_pagerank: the page drawn last
    probabilities, \* transition_model's result; sample: current_probabilities
    n,             \* sample_pagerank: the number of samples
    i,             \* sample_pagerank: the loop variable of line 110
    createdPages,  \* sample_pagerank: the table it returns
    ranks,         \* iterate_pagerank: the table it returns
    count,         \* iterate_pagerank: nodes converged so far in this round
    key,           \* iterate_pagerank: position of the for loop of line 140
    old            \* history: ranks as it stood when the current round began

vars == <<corpus, damping, pc, err, page, probabilities, n, i,
          createdPages, ranks, count, key, old>>

---------------------------------------------------------------------------
(* Bounds *)

MaxN == 3            \* transition_model: graphs of 1..MaxN pages
MaxSamplePages == 2  \* sample_pagerank: graphs of 0..MaxSamplePages pages
MaxIterPages == 3    \* iterate_pagerank: graphs of 0..MaxIterPages pages
MaxSamples == 6      \* sample_pagerank is called with n in 1..MaxSamples

---------------------------------------------------------------------------
(* Exact rationals *)

RECURSIVE GCD(_, _)
GCD(a, b) == IF b = 0 THEN a ELSE GCD(b, a % b)

Abs(x) == IF x < 0 THEN -x ELSE x

Rat(a, b) ==
    LET g == GCD(Abs(a), b)
    IN  [n |-> a \div g, d |-> b \div g]

Zero == Rat(0, 1)
One == Rat(1, 1)

RAdd(x, y) == Rat(x.n * y.d + y.n * x.d, x.d * y.d)
RSub(x, y) == Rat(x.n * y.d - y.n * x.d, x.d * y.d)
RMul(x, y) == Rat(x.n * y.n, x.d * y.d)
RInv(k) == Rat(1, k)
RLess(x, y) == x.n * y.d < y.n * x.d

RECURSIVE RSum(_, _)
RSum(f, S) ==
    IF S = {} THEN Zero
    ELSE LET x == CHOOSE y \in S : TRUE
         IN  RAdd(f[x], RSum(f, S \ {x}))

---------------------------------------------------------------------------
(* Inputs *)

\* crawl(): pages[filename] = set(links) - {filename}, links kept only when
\* they are pages of the corpus.  Pages are 1..N in the dict's order.
Corpora(N) ==
    { c \in [1..N -> SUBSET (1..N)] : \A p \in 1..N : p \notin c[p] }

\* Two graphs of four pages, every page with a link, for iterate_pagerank.
FourPageCorpora ==
    { <<{2, 4}, {4}, {1, 2}, {1, 2, 3}>>, <<{4}, {1}, {2, 4}, {1, 2}>> }

Pages(c) == DOMAIN c

\* damping factors in (0,1); 85/100 is DAMPING
Dampings == { Rat(1, 2), Rat(85, 100) }

---------------------------------------------------------------------------
(* transition_model *)

\* Mutant: the random-jump share overwrites the link share instead of adding.
transition_model_overwrite(c, pg, df) ==
    [p \in Pages(c) |->
        RMul(RSub(One, df), RInv(Cardinality(Pages(c))))]

transition_model(c, pg, df) ==
    LET page_links == c[pg]
        all_pages == Pages(c)
        linked(p) == IF p \in page_links
                     THEN RMul(df, RInv(Cardinality(page_links)))
                     ELSE Zero
    IN  [p \in all_pages |->
            RAdd(linked(p), RMul(RSub(One, df), RInv(Cardinality(all_pages))))]

InitTransition ==
    /\ corpus \in UNION { Corpora(N) : N \in 1..MaxN }
    /\ damping \in Dampings
    /\ page \in Pages(corpus)
    /\ pc = "start"
    /\ err = "none"
    /\ probabilities = <<>>
    /\ n = 0 /\ i = 0 /\ createdPages = <<>>
    /\ ranks = <<>> /\ count = 0 /\ key = 0 /\ old = <<>>

TransitionCall ==
    /\ pc = "start"
    /\ probabilities' = transition_model(corpus, page, damping)
    /\ pc' = "done"
    /\ UNCHANGED <<corpus, damping, err, page, n, i, createdPages,
                   ranks, count, key, old>>

NextTransition == TransitionCall

SpecTransition == InitTransition /\ [][NextTransition]_vars

---------------------------------------------------------------------------
(* IEEE-754 doubles, for the table sample_pagerank accumulates *)

\* A double x with x = 0 or 1/8 <= x < 2 is a multiple of 2^-56.  It is held
\* as the integer x * 2^56, written in three digits <<h, m, l>> of base 2^19
\* (h * 2^38 + m * 2^19 + l), since the integer itself has up to 57 bits.
Base == 2 ^ 19

DNorm(h, m, l) ==
    LET m2 == m + (l \div Base)
    IN  <<h + (m2 \div Base), m2 % Base, l % Base>>

DZero == <<0, 0, 0>>
DOne == <<2 ^ 18, 0, 0>>

\* The spacing of the doubles around v, in units of 2^-56: 53 significant bits.
Grain(v) ==
    IF v[1] >= 2 ^ 18 THEN 16
    ELSE IF v[1] >= 2 ^ 17 THEN 8
    ELSE IF v[1] >= 2 ^ 16 THEN 4
    ELSE IF v[1] >= 2 ^ 15 THEN 2
    ELSE 1

\* Round to nearest, ties to even; sticky: the exact value lies above v.
RoundDouble(v, sticky) ==
    LET g == Grain(v)
        r == v[3] % g
        down == v[3] - r
        odd == (v[3] \div g) % 2 = 1
        up == (2 * r > g) \/ (2 * r = g /\ (sticky \/ odd))
    IN  DNorm(v[1], v[2], IF up THEN down + g ELSE down)

\* float + float
DAdd(x, y) == RoundDouble(DNorm(x[1] + y[1], x[2] + y[2], x[3] + y[3]), FALSE)

\* int / int, for 0 <= k <= 2 * d, k = 0 or k / d >= 1/8: long division
DDiv(k, d) ==
    LET a == k * (2 ^ 18)
        b == (a % d) * Base
        c == (b % d) * Base
    IN  RoundDouble(<<a \div d, b \div d, c \div d>>, c % d # 0)

(* sample_pagerank *)

\* Mutant: line 112 written with = instead of +=.
AddSample_assign(cp, q, k) == [cp EXCEPT ![q] = DDiv(1, k)]

\* line 112: createdPages[new_page[0]] += 1/n
AddSample(cp, q, k) == [cp EXCEPT ![q] = DAdd(cp[q], DDiv(1, k))]

\* random.choices(population, weights): a page of positive weight
Drawable(w) == { q \in DOMAIN w : RLess(Zero, w[q]) }

InitSample ==
    /\ corpus \in UNION { Corpora(N) : N \in 0..MaxSamplePages }
    /\ damping \in Dampings
    /\ n \in 1..MaxSamples
    /\ pc = "start"
    /\ err = "none"
    /\ page = 0
    /\ probabilities = <<>>
    /\ i = 0 /\ createdPages = <<>>
    /\ ranks = <<>> /\ count = 0 /\ key = 0 /\ old = <<>>

\* lines 93-101 on an empty corpus: random.choice([]) raises IndexError
SampleEmpty ==
    /\ pc = "start"
    /\ Pages(corpus) = {}
    /\ err' = "IndexError"
    /\ pc' = "raised"
    /\ UNCHANGED <<corpus, damping, page, probabilities, n, i, createdPages,
                   ranks, count, key, old>>

\* lines 93-107: the first sample
SampleFirst ==
    /\ pc = "start"
    /\ \E first_page \in Pages(corpus) :
          /\ createdPages' =
                [[p \in Pages(corpus) |-> DZero] EXCEPT ![first_page] = DDiv(1, n)]
          /\ probabilities' = transition_model(corpus, first_page, damping)
          /\ page' = first_page
    /\ i' = 0
    /\ pc' = "loop"
    /\ UNCHANGED <<corpus, damping, err, n, ranks, count, key, old>>

\* lines 110-113: one pass of the loop
SampleStep ==
    /\ pc = "loop"
    /\ i < n - 1
    /\ \E new_page \in Drawable(probabilities) :
          /\ createdPages' = AddSample(createdPages, new_page, n)
          /\ probabilities' = transition_model(corpus, new_page, damping)
          /\ page' = new_page
    /\ i' = i + 1
    /\ UNCHANGED <<corpus, damping, pc, err, n, ranks, count, key, old>>

\* line 115
SampleReturn ==
    /\ pc = "loop"
    /\ i = n - 1
    /\ pc' = "done"
    /\ UNCHANGED <<corpus, damping, err, page, probabilities, n, i,
                   createdPages, ranks, count, key, old>>

NextSample == SampleEmpty \/ SampleFirst \/ SampleStep \/ SampleReturn

SpecSample == InitSample /\ [][NextSample]_vars

---------------------------------------------------------------------------
(* iterate_pagerank: fixed-point numbers, in units of 1/Scale *)

Scale == 10 ^ 6

\* a / b rounded to the nearest unit (a >= 0, b > 0)
FDiv(a, b) == (2 * a + b) \div (2 * b)

\* the fixed-point value of a rational
Fixed(r) == FDiv(r.n * Scale, r.d)

\* line 130: threshold = 0.0005
threshold == Fixed(Rat(5, 10000))

\* lines 133-136: ranks[key] = 1 / N
InitialRanks(c) ==
    [p \in Pages(c) |-> FDiv(Scale, Cardinality(Pages(c)))]

RECURSIVE Sigma(_, _, _, _)
\* lines 142-146: the sum over the pages that link to k, pages S still to visit
Sigma(c, r, k, S) ==
    IF S = {} THEN 0
    ELSE LET pg == CHOOSE q \in S : TRUE
             rest == Sigma(c, r, k, S \ {pg})
         IN  IF k \in c[pg]
             THEN rest + FDiv(r[pg], Cardinality(c[pg]))
             ELSE rest

\* lines 141-148: the new rank of k, read from table r
NewRank(c, df, r, k) ==
    FDiv(Scale - Fixed(df), Cardinality(Pages(c)))
        + FDiv(df.n * Sigma(c, r, k, Pages(c)), df.d)

\* line 149: abs(ranks[key] - new) < threshold
Close(x, y) == Abs(x - y) < threshold

\* Mutant: the loop is left as soon as some page has converged.
AllConverged_some(cnt, N) == cnt >= 1

\* Mutant: a test that no count satisfies.
AllConverged_never(cnt, N) == cnt > N

\* line 152: count == N
AllConverged(cnt, N) == cnt = N

\* Mutant: the comparison is made after line 151 has stored the new value.
Tally_after(cnt, was, new) == IF Close(new, new) THEN cnt + 1 ELSE cnt

\* lines 149-150
Tally(cnt, was, new) == IF Close(was, new) THEN cnt + 1 ELSE cnt

InitIterate ==
    /\ corpus \in UNION { Corpora(N) : N \in 0..MaxIterPages } \cup FourPageCorpora
    /\ damping \in Dampings
    /\ pc = "start"
    /\ err = "none"
    /\ page = 0
    /\ probabilities = <<>>
    /\ n = 0 /\ i = 0 /\ createdPages = <<>>
    /\ ranks = <<>> /\ count = 0 /\ key = 0 /\ old = <<>>

\* lines 129-139: the table is filled with 1/N and the first round begins
IterStart ==
    /\ pc = "start"
    /\ ranks' = InitialRanks(corpus)
    /\ old' = InitialRanks(corpus)
    /\ count' = 0
    /\ key' = 1
    /\ pc' = "round"
    /\ UNCHANGED <<corpus, damping, err, page, probabilities, n, i,
                   createdPages>>

\* lines 140-151: one pass of the for loop, for the page at position key
IterPage ==
    /\ pc = "round"
    /\ key \in Pages(corpus)
    /\ LET new == NewRank(corpus, damping, ranks, key)
       IN  /\ count' = Tally(count, ranks[key], new)
           /\ ranks' = [ranks EXCEPT ![key] = new]
    /\ key' = key + 1
    /\ UNCHANGED <<corpus, damping, pc, err, page, probabilities, n, i,
                   createdPages, old>>

\* lines 152, 138-139: the for loop is over, some page has not converged
IterAgain ==
    /\ pc = "round"
    /\ key \notin Pages(corpus)
    /\ ~AllConverged(count, Cardinality(Pages(corpus)))
    /\ count' = 0
    /\ key' = 1
    /\ old' = ranks
    /\ UNCHANGED <<corpus, damping, pc, err, page, probabilities, n, i,
                   createdPages, ranks>>

\* lines 152-154: the for loop is over, every page has converged
IterReturn ==
    /\ pc = "round"
    /\ key \notin Pages(corpus)
    /\ AllConverged(count, Cardinality(Pages(corpus)))
    /\ pc' = "done"
    /\ UNCHANGED <<corpus, damping, err, page, probabilities, n, i,
                   createdPages, ranks, count, key, old>>

NextIterate == IterStart \/ IterPage \/ IterAgain \/ IterReturn

SpecIterate == InitIterate /\ [][NextIterate]_vars

\* The interpreter runs the loop: a step that can be taken is taken.
FairIterate == SpecIterate /\ WF_vars(NextIterate)

---------------------------------------------------------------------------
(* Claims about transition_model *)

Returned == pc = "done" /\ err = "none"

\* C1 (as claimed): for every page of a non-empty graph, sinks included, the
\* distribution transition_model returns is over all pages, has no negative
\* value and sums to exactly 1.
C1_ProperDistribution ==
    Returned =>
        /\ DOMAIN probabilities = Pages(corpus)
        /\ \A p \in Pages(corpus) : ~RLess(probabilities[p], Zero)
        /\ RSum(probabilities, Pages(corpus)) = One

\* C2 (as claimed): from a sink, transition_model returns 1/N for every page.
C2_SinkUniform ==
    (Returned /\ corpus[page] = {}) =>
        \A p \in Pages(corpus) :
            probabilities[p] = Rat(1, Cardinality(Pages(corpus)))

\* C3: from a page with links, a linked page gets d/|linked| + (1-d)/N, any
\* other page gets (1-d)/N, and so a linked page gets strictly more.
C3_LinkedShare ==
    (Returned /\ corpus[page] # {}) =>
        LET N == Cardinality(Pages(corpus))
            L == Cardinality(corpus[page])
            floor == Rat(damping.d - damping.n, damping.d * N)
            top == Rat(damping.n * N + (damping.d - damping.n) * L,
                       damping.d * L * N)
        IN  /\ \A p \in corpus[page] : probabilities[p] = top
            /\ \A p \in Pages(corpus) \ corpus[page] : probabilities[p] = floor
            /\ \A p \in corpus[page] : \A q \in Pages(corpus) \ corpus[page] :
                   RLess(probabilities[q], probabilities[p])

\* C3's case: a page that links to one page and not to another, third, one.
C3_Witness ==
    /\ Returned
    /\ corpus[page] # {}
    /\ \E q \in Pages(corpus) \ corpus[page] : q # page

---------------------------------------------------------------------------
(* Claims about sample_pagerank *)

RECURSIVE Accumulated(_, _)
\* What k samples leave in an entry: 0, then 1/m, then 1/m added k - 1 times.
Accumulated(k, m) ==
    IF k = 0 THEN DZero
    ELSE IF k = 1 THEN DDiv(1, m)
    ELSE DAdd(Accumulated(k - 1, m), DDiv(1, m))

AccumulatedTable ==
    [m \in 1..MaxSamples |-> [k \in 0..m |-> Accumulated(k, m)]]

\* The numbers of samples that leave v in an entry (at most one number).
Counts(v) == { k \in 0..n : AccumulatedTable[n][k] = v }

Visits(p) == CHOOSE k \in Counts(createdPages[p]) : TRUE

RECURSIVE SumVisits(_)
SumVisits(S) ==
    IF S = {} THEN 0
    ELSE LET p == CHOOSE q \in S : TRUE
         IN  Visits(p) + SumVisits(S \ {p})

RECURSIVE FloatSum(_, _)
\* sum(createdPages.values()) as floats add, pages 1..k in the dict's order
FloatSum(f, k) == IF k = 0 THEN DZero ELSE DAdd(FloatSum(f, k - 1), f[k])

RECURSIVE RealSum(_, _)
\* the sum of the entries as real numbers, nothing rounded
RealSum(f, k) ==
    IF k = 0 THEN DZero
    ELSE LET t == RealSum(f, k - 1)
         IN  DNorm(t[1] + f[k][1], t[2] + f[k][2], t[3] + f[k][3])

\* v is within k units of 2^-56 of 1
NearOne(v, k) ==
    \/ v[1] = 2 ^ 18 /\ v[2] = 0 /\ v[3] <= k
    \/ v[1] = 2 ^ 18 - 1 /\ v[2] = Base - 1 /\ v[3] >= Base - k

NPages == Cardinality(Pages(corpus))

\* C4 (as claimed): the table sample_pagerank returns holds, for each page,
\* its visit count divided by n, and its values sum to exactly 1.
C4_SumsToExactlyOne ==
    (pc = "done" /\ err = "none") =>
        /\ \A p \in Pages(corpus) :
              /\ Counts(createdPages[p]) # {}
              /\ createdPages[p] = DDiv(Visits(p), n)
        /\ FloatSum(createdPages, NPages) = DOne

\* C4 (amended): every sample (the start and each later draw) adds the float
\* 1/n to the entry of exactly one page and leaves the others alone; after k
\* samples each entry is what its visit count of additions leaves and the
\* counts sum to k; the table returned sums to 1 within n * 2^-53.
C4_OneEntryPerSample ==
    /\ [](pc \in {"loop", "done"} =>
            /\ \A p \in Pages(corpus) : Counts(createdPages[p]) # {}
            /\ SumVisits(Pages(corpus)) = i + 1)
    /\ [](pc = "done" => NearOne(RealSum(createdPages, NPages), 8 * n))
    /\ [][(pc = "loop" /\ pc' = "loop") =>
            \E q \in Pages(corpus) :
                /\ createdPages'[q] = DAdd(createdPages[q], DDiv(1, n))
                /\ \A r \in Pages(corpus) \ {q} :
                      createdPages'[r] = createdPages[r]]_vars
    /\ [][(pc = "start" /\ pc' = "loop") =>
            \E q \in Pages(corpus) :
                /\ createdPages'[q] = DDiv(1, n)
                /\ \A r \in Pages(corpus) \ {q} : createdPages'[r] = DZero]_vars

\* C4's case: six samples, five of them on one page; the table returned does
\* not sum to 1.
C4_Witness ==
    /\ pc = "done"
    /\ err = "none"
    /\ n = 6
    /\ \E p \in Pages(corpus) : Visits(p) = 5
    /\ RealSum(createdPages, NPages) # DOne

---------------------------------------------------------------------------
(* Claims about iterate_pagerank *)

RECURSIVE SumRanks(_, _)
SumRanks(r, k) == IF k = 0 THEN 0 ELSE SumRanks(r, k - 1) + r[k]

\* what the roundings of a run can add up to: 1e-4
Slack == Scale \div 10000

RoundOver == pc = "round" /\ key \notin Pages(corpus)

\* C5 (as claimed): on a non-empty graph, sinks included, the ranks sum to 1
\* after initialization, at the end of every round and on return.
C5_RanksSumToOne ==
    (Pages(corpus) # {} /\ (RoundOver \/ pc = "done" \/ (pc = "round" /\ key = 1)))
        => Abs(SumRanks(ranks, NPages) - Scale) <= Slack

\* C6: on every graph and damping factor the loop is left and the function
\* returns.
C6_Terminates == <>(pc = "done")

\* C6's case: a return after more than one round, from a graph of four pages.
C6_Witness ==
    /\ pc = "done"
    /\ NPages = 4
    /\ old # InitialRanks(corpus)

\* C7 (as claimed): on the empty graph an estimator returns no table, and the
\* exception it raises is InvalidGraphError.
C7_EmptyGraphFails ==
    Pages(corpus) = {} =>
        /\ pc # "done"
        /\ pc = "raised" => err = "InvalidGraphError"

\* C8 (as claimed): the table a round leaves holds, for every page, the
\* update rule applied to the table as it stood when the round began.
C8_ReadsPreviousRound ==
    (RoundOver \/ pc = "done") =>
        \A p \in Pages(corpus) :
            ranks[p] = NewRank(corpus, damping, old, p)

\* the pages before position k that moved by less than the threshold
ConvergedBefore(k) == { p \in Pages(corpus) : p < k /\ Close(old[p], ranks[p]) }

\* C9: count starts from zero in every round and counts the pages compared
\* so far that moved by less than the threshold; the function returns after
\* a round exactly when all N pages did, and a round in which some page
\* moved by the threshold or more is followed by another round.
C9_StopsIffAllConverged ==
    /\ [](pc = "round" => count = Cardinality(ConvergedBefore(key)))
    /\ [][(RoundOver /\ ConvergedBefore(key) # Pages(corpus))
            => (pc' = "round" /\ key' = 1 /\ count' = 0 /\ ranks' = ranks)]_vars
    /\ [][(RoundOver /\ ConvergedBefore(key) = Pages(corpus))
            => (pc' = "done" /\ ranks' = ranks)]_vars
    /\ [][pc' = "done" => (RoundOver \/ pc = "done")]_vars

\* C9's case: a round ends with some pages converged and some not.
C9_Witness ==
    /\ RoundOver
    /\ count >= 1
    /\ count < NPages

RECURSIVE RoundFrom(_, _)
\* one more round of lines 140-151 on table r, from position k on
RoundFrom(r, k) ==
    IF k \notin Pages(corpus) THEN r
    ELSE RoundFrom([r EXCEPT ![k] = NewRank(corpus, damping, r, k)], k + 1)

\* C10 (as claimed): one more round on the table returned moves every page
\* by less than the threshold; {A: {B}, B: {A}} with damping 0.85 returns 0.5
\* and 0.5.
C10_Idempotent ==
    pc = "done" =>
        /\ \A p \in Pages(corpus) : Close(ranks[p], RoundFrom(ranks, 1)[p])
        /\ (corpus = <<{2}, {1}>> /\ damping = Rat(85, 100))
              => ranks = <<Scale \div 2, Scale \div 2>>

\* C10 (amended): one more round on the table returned moves every page by
\* less than N * d / (1 - d) times the threshold; {A: {B}, B: {A}} with
\* damping 0.85 returns 0.5 and 0.5.
C10_BoundedDrift ==
    pc = "done" =>
        /\ \A p \in Pages(corpus) :
              Abs(ranks[p] - RoundFrom(ranks, 1)[p]) * (damping.d - damping.n)
                  < NPages * damping.n * threshold
        /\ (corpus = <<{2}, {1}>> /\ damping = Rat(85, 100))
              => ranks = <<Scale \div 2, Scale \div 2>>

\* C10's case: a table returned that one more round moves by the threshold
\* or more in some page.
C10_Witness ==
    /\ pc = "done"
    /\ \E p \in Pages(corpus) : ~Close(ranks[p], RoundFrom(ranks, 1)[p])

====
